---------------------------- MODULE Spec2Model ----------------------------
(***************************************************************************)
(* Two-intersection traffic light controller (STM32, IS1300 project).      *)
(*                                                                         *)
(* The model covers traffic.c (the polling state machine Traffic),         *)
(* 595_shiftreg.c (the lamp register, the staged sequencer go_intersection *)
(* / stop_intersection, the crossing functions), clock.c (the EXTI and     *)
(* timer interrupt callbacks) and traffic_functions.c.                     *)
(*                                                                         *)
(* Execution model.  The main program is one thread whose position is pc   *)
(* (a place in Traffic) plus ops, the statements still to run of the       *)
(* functions it is inside.  Interrupt callbacks are atomic and may run     *)
(* between any two main steps.  The hardware counters TIM4, TIM5 and TIM15 *)
(* share one prescaled clock; Tick advances every running counter.  One    *)
(* model tick stands for Scale hardware ticks, and every duration of       *)
(* timer_config.h is divided by Scale.  The main loop is far faster than a *)
(* model tick: between two ticks it completes at least one iteration       *)
(* (variable polled), so a tick is taken between two iterations.  The TIM5 *)
(* callback of a tick may land anywhere in the iteration that follows (the *)
(* counters are in step only up to less than one model tick).              *)
(***************************************************************************)
EXTENDS Integers, Sequences, FiniteSets, TLC

(* ------------------------- timer_config.h ----------------------------- *)
\* hardware ticks (0.5 ms each) per model tick
Scale == 2000

TIMER_2s == (3999 - 100) \div Scale
orange_Delay == (5999 - 100) \div Scale
pedestrian_Delay == orange_Delay + TIMER_2s
transition_Time == 30000
red_delay_Max == (((40000 - transition_Time) - 1) - 100) \div Scale
green_Delay == (((60000 - transition_Time) - 1) - 100) \div Scale

\* auto-reload values: a counter counts 0 .. ARR and wraps to 0
TIM4_ARR == 9999 \div Scale
TIM5_ARR == 29999 \div Scale
TIM15_ARR == 59999 \div Scale

(* --------------------------- 595_shiftreg.h --------------------------- *)
\* a green mask that names a lamp of the other intersection
Greens_Mixed(k) ==
  IF k = 1 THEN {"TL1_Green", "TL2_Green"}
  ELSE IF k = 2 THEN {"TL2_Green", "TL4_Green"} ELSE {}
Greens(k) ==
  IF k = 1 THEN {"TL1_Green", "TL3_Green"}
  ELSE IF k = 2 THEN {"TL2_Green", "TL4_Green"} ELSE {}
\* an amber mask that names the red lamps
Yellows_AsReds(k) ==
  IF k = 1 THEN {"TL1_Red", "TL3_Red"}
  ELSE IF k = 2 THEN {"TL2_Red", "TL4_Red"} ELSE {}
Yellows(k) ==
  IF k = 1 THEN {"TL1_Yellow", "TL3_Yellow"}
  ELSE IF k = 2 THEN {"TL2_Yellow", "TL4_Yellow"} ELSE {}
\* a red mask that names the green lamps
Reds_AsGreens(k) ==
  IF k = 1 THEN {"TL1_Green", "TL3_Green"}
  ELSE IF k = 2 THEN {"TL2_Green", "TL4_Green"} ELSE {}
Reds(k) ==
  IF k = 1 THEN {"TL1_Red", "TL3_Red"}
  ELSE IF k = 2 THEN {"TL2_Red", "TL4_Red"} ELSE {}
PL_Red(c) == IF c = 1 THEN "PL1_Red" ELSE "PL2_Red"
PL_Green(c) == IF c = 1 THEN "PL1_Green" ELSE "PL2_Green"
PL_Blue(c) == IF c = 1 THEN "PL1_Blue" ELSE "PL2_Blue"

\* a start mask that lights the red lamp of crosswalk 1 instead of the green one
init_state_Crosswalk1Red ==
  (Greens(2) \cup {PL_Red(2)}) \cup (Reds(1) \cup {PL_Red(1)})
init_state ==
  (Greens(2) \cup {PL_Red(2)}) \cup (Reds(1) \cup {PL_Green(1)})

VARIABLES
  State, NextState,      \* traffic.c: static states State, NextState
  stage,                 \* the static stage of case Intersection1 / Intersection2
  go_static,             \* go_intersection's statics: stage, and whose masks
  stop_static,           \* stop_intersection's statics
  intersection_green, intersection_red,   \* intersectionK_green / _red
  crosswalk_green, crosswalk_red,         \* crosswalkK_green / _red
  PL_SW_HIT,             \* PLk_SW_HIT
  car_active,            \* car1_active .. car4_active
  shiftreg_buffer,       \* the lamps that are lit
  toggle,                \* toggle_pedestrian's static toggle
  bitmask,               \* the local of set_pin / clear_pin in the main program
  htim3, htim4, htim5, htim15,            \* [on, cnt]
  irq5,                  \* TIM5 update interrupt pending
  pc, ops,               \* position of the main program
  polled                 \* an iteration has begun since the last tick

vars ==
  << State, NextState, stage, go_static, stop_static, intersection_green,
     intersection_red, crosswalk_green, crosswalk_red, PL_SW_HIT, car_active,
     shiftreg_buffer, toggle, bitmask, htim3, htim4, htim5, htim15, irq5,
     pc, ops, polled >>

Other(k) == 3 - k
StateOf(k) == IF k = 1 THEN "Intersection1" ELSE "Intersection2"
\* the approaches of intersection 1 taken for both intersections
CarOf_FirstOnly(k, j) == IF j = 1 THEN 1 ELSE 3
\* the two approaches of intersection k: cars 1,3 and cars 2,4
CarOf(k, j) == IF k = 1 THEN (IF j = 1 THEN 1 ELSE 3) ELSE (IF j = 1 THEN 2 ELSE 4)

(* ------------------------------ timers -------------------------------- *)
HAL_TIM_Base_Start(t) == [t EXCEPT !.on = TRUE]
\* a stop that leaves the counter as it is
stop_and_resetTimer_KeepsCount(t) == [t EXCEPT !.on = FALSE]
stop_and_resetTimer(t) == [on |-> FALSE, cnt |-> 0]
Count(t, arr) ==
  IF t.on THEN [t EXCEPT !.cnt = IF t.cnt >= arr THEN 0 ELSE t.cnt + 1] ELSE t

(* ------------------- statements of the main program ------------------- *)
At(l, k, i) == [l |-> l, k |-> k, i |-> i]
Top == At("top", 0, 0)
Op(name, k, v, pins) == [op |-> name, k |-> k, v |-> v, pins |-> pins]

set_pin(pins) == << Op("pin_rd", 0, FALSE, {}), Op("pin_set", 0, FALSE, pins) >>
clear_pin(pins) == << Op("pin_rd", 0, FALSE, {}), Op("pin_clr", 0, FALSE, pins) >>

\* go_pedestrian acting on the crossing opposite to the one named
go_pedestrian_Opposite(c) ==
  IF c \in {1, 2}
  THEN << Op("cw_green", Other(c), TRUE, {}), Op("cw_red", Other(c), FALSE, {}) >>
       \o clear_pin({PL_Red(Other(c))}) \o set_pin({PL_Green(Other(c))})
       \o << Op("walk_hit", 1, FALSE, {}) >>
  ELSE << >>

go_pedestrian(c) ==
  IF c \in {1, 2}
  THEN << Op("cw_green", c, TRUE, {}), Op("cw_red", c, FALSE, {}) >>
       \o clear_pin({PL_Red(c)}) \o set_pin({PL_Green(c)})
       \o << Op("walk_hit", 1, FALSE, {}) >>
  ELSE << >>

\* stop_pedestrian without the assignment crosswalkK_green = 0
stop_pedestrian_KeepsGreenFlag(c) ==
  IF c \in {1, 2}
  THEN << Op("cw_red", c, TRUE, {}) >>
       \o clear_pin({PL_Green(c)}) \o set_pin({PL_Red(c)})
  ELSE << >>

stop_pedestrian(c) ==
  IF c \in {1, 2}
  THEN << Op("cw_green", c, FALSE, {}), Op("cw_red", c, TRUE, {}) >>
       \o clear_pin({PL_Green(c)}) \o set_pin({PL_Red(c)})
  ELSE << >>

Init ==
  /\ State = "Intersection2"
  /\ NextState = "Intersection2"
  /\ stage = [k \in {1, 2} |-> 0]
  /\ go_static = [stage |-> 0, sel |-> 0]
  /\ stop_static = [stage |-> 0, sel |-> 0]
  /\ intersection_green = [k \in {1, 2} |-> k = 2]
  /\ intersection_red = [k \in {1, 2} |-> k = 1]
  /\ crosswalk_green = [k \in {1, 2} |-> k = 1]
  /\ crosswalk_red = [k \in {1, 2} |-> k = 2]
  /\ PL_SW_HIT = [k \in {1, 2} |-> FALSE]
  /\ car_active = [i \in 1..4 |-> FALSE]
  /\ shiftreg_buffer = init_state
  /\ toggle = FALSE
  /\ bitmask = {}
  /\ htim3 = [on |-> FALSE, cnt |-> 0]
  /\ htim4 = [on |-> FALSE, cnt |-> 0]
  /\ htim5 = [on |-> FALSE, cnt |-> 0]
  /\ htim15 = [on |-> FALSE, cnt |-> 0]
  /\ irq5 = FALSE
  /\ pc = Top
  /\ ops = << >>
  /\ polled = TRUE


(* --------------------------- frame groups ----------------------------- *)
ctlv == << State, NextState, stage >>
seqv == << go_static, stop_static >>
iflags == << intersection_green, intersection_red >>
cflags == << crosswalk_green, crosswalk_red >>
inputs == << PL_SW_HIT, car_active >>
lampv == << shiftreg_buffer, toggle, bitmask >>
timv == << htim3, htim4, htim5, htim15, irq5 >>

\* The main program runs a statement of a callee (ops).
MainOp(name) == ops # << >> /\ Head(ops).op = name
\* The main program is at place l of Traffic.
MainAt(l) == ops = << >> /\ pc.l = l

(* ------------------- set_pin / clear_pin (main program) --------------- *)
\* uint32_t bitmask = shiftreg_buffer[U1] << 16 | ...
Main_pin_rd ==
  /\ MainOp("pin_rd")
  /\ bitmask' = shiftreg_buffer
  /\ ops' = Tail(ops)
  /\ UNCHANGED << ctlv, seqv, iflags, cflags, inputs, shiftreg_buffer, toggle,
                  timv, pc, polled >>

\* data = bitmask | pins; update_shiftreg_buffer(data); buffer_to_SPI()
Main_pin_set ==
  /\ MainOp("pin_set")
  /\ shiftreg_buffer' = bitmask \cup Head(ops).pins
  /\ bitmask' = {}
  /\ ops' = Tail(ops)
  /\ UNCHANGED << ctlv, seqv, iflags, cflags, inputs, toggle, timv, pc, polled >>

\* data = bitmask & ~pins; update_shiftreg_buffer(data); buffer_to_SPI()
Main_pin_clr ==
  /\ MainOp("pin_clr")
  /\ shiftreg_buffer' = bitmask \ Head(ops).pins
  /\ bitmask' = {}
  /\ ops' = Tail(ops)
  /\ UNCHANGED << ctlv, seqv, iflags, cflags, inputs, toggle, timv, pc, polled >>

(* --------------- go_pedestrian / stop_pedestrian (main) --------------- *)
Main_cw_green ==
  /\ MainOp("cw_green")
  /\ crosswalk_green' = [crosswalk_green EXCEPT ![Head(ops).k] = Head(ops).v]
  /\ ops' = Tail(ops)
  /\ UNCHANGED << ctlv, seqv, iflags, crosswalk_red, inputs, lampv, timv, pc, polled >>

Main_cw_red ==
  /\ MainOp("cw_red")
  /\ crosswalk_red' = [crosswalk_red EXCEPT ![Head(ops).k] = Head(ops).v]
  /\ ops' = Tail(ops)
  /\ UNCHANGED << ctlv, seqv, iflags, crosswalk_green, inputs, lampv, timv, pc, polled >>

\* if (PL1_SW_HIT || PL2_SW_HIT) HAL_TIM_Base_Start_IT(&htim5): the two flags are
\* read one after the other (k = 1, then k = 2).
WalkTimerArmed(hit) == hit
Main_walk_hit ==
  /\ MainOp("walk_hit")
  /\ LET k == Head(ops).k IN
       IF WalkTimerArmed(PL_SW_HIT[k])
       THEN /\ htim5' = HAL_TIM_Base_Start(htim5)
            /\ ops' = Tail(ops)
       ELSE /\ htim5' = htim5
            /\ ops' = IF k = 1 THEN << Op("walk_hit", 2, FALSE, {}) >> \o Tail(ops)
                      ELSE Tail(ops)
  /\ UNCHANGED << ctlv, seqv, iflags, cflags, inputs, lampv, htim3, htim4, htim15,
                  irq5, pc, polled >>

(* ------------------ go_intersection / stop_intersection --------------- *)
\* (intersection == 1) ? (intersection1_x = v) : (intersection2_x = v)
FlagOf(k) == IF k = 1 THEN 1 ELSE 2
\* the two stage thresholds exchanged
Expired_Swapped(st, cnt) == cnt >= (IF st = 0 THEN orange_Delay ELSE TIMER_2s)
\* __HAL_TIM_GetCounter(&htim4) >= threshold of the stage
Expired(st, cnt) == cnt >= (IF st = 0 THEN TIMER_2s ELSE orange_Delay)

\* go_intersection(k), up to the read of clear_pin
Main_go_intersection ==
  /\ MainOp("go_intersection")
  /\ LET k == Head(ops).k
         valid == go_static.stage = 1 \/ k \in {1, 2}
         sel == IF go_static.stage = 0 /\ k \in {1, 2} THEN k ELSE go_static.sel
     IN  /\ go_static' = [go_static EXCEPT !.sel = sel]
         /\ IF valid /\ Expired(go_static.stage, htim4.cnt)
            THEN /\ htim4' = stop_and_resetTimer(htim4)
                 /\ bitmask' = shiftreg_buffer
                 /\ ops' = IF go_static.stage = 0
                           THEN << Op("pin_clr", 0, FALSE, Reds(sel)) >>
                                \o set_pin(Yellows(sel))
                                \o << Op("go_fin0", k, FALSE, {}) >> \o Tail(ops)
                           ELSE << Op("pin_clr", 0, FALSE, Yellows(sel)) >>
                                \o set_pin(Greens(sel))
                                \o << Op("go_fin1", k, FALSE, {}) >> \o Tail(ops)
            ELSE /\ ops' = Tail(ops)
                 /\ UNCHANGED << htim4, bitmask >>
  /\ UNCHANGED << ctlv, stop_static, iflags, cflags, inputs, shiftreg_buffer, toggle,
                  htim3, htim5, htim15, irq5, pc, polled >>

\* the end of go_intersection's stage 0 with the green flag set already
Main_go_fin0_GreenEarly ==
  /\ MainOp("go_fin0")
  /\ htim4' = HAL_TIM_Base_Start(htim4)
  /\ intersection_red' = [intersection_red EXCEPT ![FlagOf(Head(ops).k)] = FALSE]
  /\ intersection_green' = [intersection_green EXCEPT ![FlagOf(Head(ops).k)] = TRUE]
  /\ go_static' = [go_static EXCEPT !.stage = 1]
  /\ ops' = Tail(ops)
  /\ UNCHANGED << ctlv, stop_static, cflags, inputs, lampv,
                  htim3, htim5, htim15, irq5, pc, polled >>

\* HAL_TIM_Base_Start(&htim4); intersectionK_red = 0; stage = 1
Main_go_fin0 ==
  /\ MainOp("go_fin0")
  /\ htim4' = HAL_TIM_Base_Start(htim4)
  /\ intersection_red' = [intersection_red EXCEPT ![FlagOf(Head(ops).k)] = FALSE]
  /\ go_static' = [go_static EXCEPT !.stage = 1]
  /\ ops' = Tail(ops)
  /\ UNCHANGED << ctlv, stop_static, intersection_green, cflags, inputs, lampv,
                  htim3, htim5, htim15, irq5, pc, polled >>

\* intersectionK_green = 1; stage = 0   (the timer stays stopped)
GoDoneTimer(t) == t
Main_go_fin1 ==
  /\ MainOp("go_fin1")
  /\ htim4' = GoDoneTimer(htim4)
  /\ intersection_green' = [intersection_green EXCEPT ![FlagOf(Head(ops).k)] = TRUE]
  /\ go_static' = [go_static EXCEPT !.stage = 0]
  /\ ops' = Tail(ops)
  /\ UNCHANGED << ctlv, stop_static, intersection_red, cflags, inputs, lampv,
                  htim3, htim5, htim15, irq5, pc, polled >>

\* stop_intersection(k), up to the read of clear_pin
Main_stop_intersection ==
  /\ MainOp("stop_intersection")
  /\ LET k == Head(ops).k
         valid == stop_static.stage = 1 \/ k \in {1, 2}
         sel == IF stop_static.stage = 0 /\ k \in {1, 2} THEN k ELSE stop_static.sel
     IN  /\ stop_static' = [stop_static EXCEPT !.sel = sel]
         /\ IF valid /\ Expired(stop_static.stage, htim4.cnt)
            THEN /\ htim4' = stop_and_resetTimer(htim4)
                 /\ bitmask' = shiftreg_buffer
                 /\ ops' = IF stop_static.stage = 0
                           THEN << Op("pin_clr", 0, FALSE, Greens(sel)) >>
                                \o set_pin(Yellows(sel))
                                \o << Op("stop_fin0", k, FALSE, {}) >> \o Tail(ops)
                           ELSE << Op("pin_clr", 0, FALSE, Yellows(sel)) >>
                                \o set_pin(Reds(sel))
                                \o << Op("stop_fin1", k, FALSE, {}) >> \o Tail(ops)
            ELSE /\ ops' = Tail(ops)
                 /\ UNCHANGED << htim4, bitmask >>
  /\ UNCHANGED << ctlv, go_static, iflags, cflags, inputs, shiftreg_buffer, toggle,
                  htim3, htim5, htim15, irq5, pc, polled >>

\* HAL_TIM_Base_Start(&htim4); intersectionK_green = 0; stage = 1
Main_stop_fin0 ==
  /\ MainOp("stop_fin0")
  /\ htim4' = HAL_TIM_Base_Start(htim4)
  /\ intersection_green' = [intersection_green EXCEPT ![FlagOf(Head(ops).k)] = FALSE]
  /\ stop_static' = [stop_static EXCEPT !.stage = 1]
  /\ ops' = Tail(ops)
  /\ UNCHANGED << ctlv, go_static, intersection_red, cflags, inputs, lampv,
                  htim3, htim5, htim15, irq5, pc, polled >>

\* HAL_TIM_Base_Start(&htim4); intersectionK_red = 1; stage = 0
Main_stop_fin1 ==
  /\ MainOp("stop_fin1")
  /\ htim4' = HAL_TIM_Base_Start(htim4)
  /\ intersection_red' = [intersection_red EXCEPT ![FlagOf(Head(ops).k)] = TRUE]
  /\ stop_static' = [stop_static EXCEPT !.stage = 0]
  /\ ops' = Tail(ops)
  /\ UNCHANGED << ctlv, go_static, intersection_green, cflags, inputs, lampv,
                  htim3, htim5, htim15, irq5, pc, polled >>


(* ------------------------------ Traffic ------------------------------- *)
EntryPc(s) ==
  CASE s = "Intersection1" -> At("case", 1, 0)
    [] s = "Intersection2" -> At("case", 2, 0)
    [] s = "Wait20s" -> At("w20_pl", 1, 0)
    [] OTHER -> At("w30_cars", 0, 1)

\* while (1) { State = NextState; switch (State) ...     (also the target of break)
Traffic_loop ==
  /\ MainAt("top")
  /\ ~irq5
  /\ State' = NextState
  /\ pc' = EntryPc(NextState)
  /\ polled' = TRUE
  /\ UNCHANGED << NextState, stage, seqv, iflags, cflags, inputs, lampv, timv, ops >>

\* case IntersectionK, sub-stage 0: skip when K is green, else stop the other one
Traffic_case(k) ==
  /\ MainAt("case") /\ pc.k = k
  /\ IF stage[k] = 0
     THEN IF intersection_green[k]
          THEN /\ stage' = [stage EXCEPT ![k] = 1]
               /\ pc' = Top
               /\ ops' = ops
          ELSE /\ stage' = stage
               /\ pc' = At("s0_delay", k, 0)
               /\ ops' = IF ~intersection_red[Other(k)]
                         THEN << Op("stop_intersection", Other(k), FALSE, {}) >>
                         ELSE ops
     ELSE /\ pc' = At("s1", k, 0)
          /\ UNCHANGED << stage, ops >>
  /\ UNCHANGED << State, NextState, seqv, iflags, cflags, inputs, lampv, timv, polled >>

\* if (intersectionO_red && __HAL_TIM_GetCounter(&htim4) >= pedestrian_Delay)
\* the swap made as soon as the other intersection is Red
HandOffDelayOver_NoDelay(red, cnt) == red
HandOffDelayOver(red, cnt) == red /\ cnt >= pedestrian_Delay
\* ... stop_and_resetTimer(&htim4); stop_pedestrian(K); go_pedestrian(O);
\*     HAL_TIM_Base_Start(&htim4); stage = 1
\* the swap with the two calls exchanged
SwapCrosswalks_GoFirst(k) ==
  go_pedestrian(Other(k)) \o stop_pedestrian(k) \o << Op("start4_stage1", k, FALSE, {}) >>
SwapCrosswalks(k) ==
  stop_pedestrian(k) \o go_pedestrian(Other(k)) \o << Op("start4_stage1", k, FALSE, {}) >>

Traffic_s0_delay(k) ==
  /\ MainAt("s0_delay") /\ pc.k = k
  /\ IF HandOffDelayOver(intersection_red[Other(k)], htim4.cnt)
     THEN /\ htim4' = stop_and_resetTimer(htim4)
          /\ ops' = SwapCrosswalks(k)
          /\ pc' = At("s1", k, 0)
     ELSE /\ pc' = Top
          /\ UNCHANGED << htim4, ops >>
  /\ UNCHANGED << ctlv, seqv, iflags, cflags, inputs, lampv, htim3, htim5, htim15,
                  irq5, polled >>

Main_start4_stage1 ==
  /\ MainOp("start4_stage1")
  /\ htim4' = HAL_TIM_Base_Start(htim4)
  /\ stage' = [stage EXCEPT ![Head(ops).k] = 1]
  /\ ops' = Tail(ops)
  /\ UNCHANGED << State, NextState, seqv, iflags, cflags, inputs, lampv, htim3,
                  htim5, htim15, irq5, pc, polled >>

\* sub-stage 1: if (stage == 1 && crosswalkK_red) { go_intersection(K) until green }
\* then if (stage == 2) ...; with neither, control falls into the next case label
Traffic_s1(k) ==
  /\ MainAt("s1") /\ pc.k = k
  /\ IF stage[k] = 1 /\ crosswalk_red[k]
     THEN IF ~intersection_green[k]
          THEN /\ ops' = << Op("go_intersection", k, FALSE, {}) >>
               /\ pc' = Top
               /\ UNCHANGED << htim4, stage >>
          ELSE /\ htim4' = stop_and_resetTimer(htim4)
               /\ stage' = [stage EXCEPT ![k] = 2]
               /\ pc' = Top
               /\ ops' = ops
     ELSE /\ pc' = IF stage[k] = 2 THEN At("s2", k, 0)
                   ELSE IF k = 1 THEN At("case", 2, 0) ELSE At("w20_pl", 1, 0)
          /\ UNCHANGED << htim4, stage, ops >>
  /\ UNCHANGED << State, NextState, seqv, iflags, cflags, inputs, lampv, htim3,
                  htim5, htim15, irq5, polled >>

\* sub-stage 2, rule 1: if (PLK_SW_HIT) { NextState = other; stage = 0; break; }
Traffic_s2(k) ==
  /\ MainAt("s2") /\ pc.k = k
  /\ IF PL_SW_HIT[k]
     THEN /\ NextState' = StateOf(Other(k))
          /\ stage' = [stage EXCEPT ![k] = 0]
          /\ pc' = Top
     ELSE /\ pc' = At("nac", k, 1)
          /\ UNCHANGED << NextState, stage >>
  /\ UNCHANGED << State, seqv, iflags, cflags, inputs, lampv, timv, ops, polled >>

\* rule 2: if (no_active_cars()) { NextState = Wait30s; stage = 0; start TIM15 }
\* no_active_cars reads car1_active .. car4_active in turn (pc.i)
Traffic_nac(k) ==
  /\ MainAt("nac") /\ pc.k = k
  /\ IF car_active[pc.i]
     THEN /\ pc' = At("aca", k, 1)
          /\ UNCHANGED << NextState, stage, htim15 >>
     ELSE IF pc.i < 4
          THEN /\ pc' = At("nac", k, pc.i + 1)
               /\ UNCHANGED << NextState, stage, htim15 >>
          ELSE /\ NextState' = "Wait30s"
               /\ stage' = [stage EXCEPT ![k] = 0]
               /\ htim15' = HAL_TIM_Base_Start(htim15)
               /\ pc' = Top
  /\ UNCHANGED << State, seqv, iflags, cflags, inputs, lampv, htim3, htim4, htim5,
                  irq5, ops, polled >>

\* rule 3: if (active_cars_at(K)) ...      active_cars_at reads two flags in turn
Traffic_aca(k) ==
  /\ MainAt("aca") /\ pc.k = k
  /\ pc' = IF car_active[CarOf(k, pc.i)] THEN At("aco", k, 1)
           ELSE IF pc.i = 1 THEN At("aca", k, 2) ELSE At("r4k", k, 1)
  /\ UNCHANGED << ctlv, seqv, iflags, cflags, inputs, lampv, timv, ops, polled >>

\* ... if (active_cars_at(other)) { NextState = Wait20s; stage = 0; start TIM15 }
\*     else { stage = 2; break; }
Traffic_aco(k) ==
  /\ MainAt("aco") /\ pc.k = k
  /\ IF car_active[CarOf(Other(k), pc.i)]
     THEN /\ NextState' = "Wait20s"
          /\ stage' = [stage EXCEPT ![k] = 0]
          /\ htim15' = HAL_TIM_Base_Start(htim15)
          /\ pc' = Top
     ELSE /\ pc' = IF pc.i = 1 THEN At("aco", k, 2) ELSE Top
          /\ stage' = [stage EXCEPT ![k] = IF pc.i = 1 THEN @ ELSE 2]
          /\ UNCHANGED << NextState, htim15 >>
  /\ UNCHANGED << State, seqv, iflags, cflags, inputs, lampv, htim3, htim4, htim5,
                  irq5, ops, polled >>

\* rule 4: if (!(active_cars_at(K)) && active_cars_at(other)) -- first operand
Traffic_r4k(k) ==
  /\ MainAt("r4k") /\ pc.k = k
  /\ IF car_active[CarOf(k, pc.i)]
     THEN /\ NextState' = StateOf(k)
          /\ stage' = [stage EXCEPT ![k] = 2]
          /\ pc' = Top
     ELSE /\ pc' = IF pc.i = 1 THEN At("r4k", k, 2) ELSE At("r4o", k, 1)
          /\ UNCHANGED << NextState, stage >>
  /\ UNCHANGED << State, seqv, iflags, cflags, inputs, lampv, timv, ops, polled >>

\* rule 4, second operand: { NextState = other; stage = 0; start TIM4 }
\* else { NextState = K; stage = 2; }
Traffic_r4o(k) ==
  /\ MainAt("r4o") /\ pc.k = k
  /\ IF car_active[CarOf(Other(k), pc.i)]
     THEN /\ NextState' = StateOf(Other(k))
          /\ stage' = [stage EXCEPT ![k] = 0]
          /\ htim4' = HAL_TIM_Base_Start(htim4)
          /\ pc' = Top
     ELSE IF pc.i = 1
          THEN /\ pc' = At("r4o", k, 2)
               /\ UNCHANGED << NextState, stage, htim4 >>
          ELSE /\ NextState' = StateOf(k)
               /\ stage' = [stage EXCEPT ![k] = 2]
               /\ pc' = Top
               /\ htim4' = htim4
  /\ UNCHANGED << State, seqv, iflags, cflags, inputs, lampv, htim3, htim5, htim15,
                  irq5, ops, polled >>

(* ------------------------ Wait20s and Wait30s ------------------------- *)
\* if (PLc_SW_HIT && intersectionc_green) { stop_and_resetTimer(&htim15);
\*                                          NextState = other; break; }
PedestrianPreempts(hit, green) == hit /\ green

Traffic_wait_pl(w) ==
  /\ MainAt(w)
  /\ LET c == pc.k IN
       IF PedestrianPreempts(PL_SW_HIT[c], intersection_green[c])
       THEN /\ htim15' = stop_and_resetTimer(htim15)
            /\ NextState' = StateOf(Other(c))
            /\ pc' = Top
       ELSE /\ pc' = IF c = 1 THEN At(w, 2, 0)
                     ELSE At(IF w = "w20_pl" THEN "w20_tim" ELSE "w30_tim", 0, 0)
            /\ UNCHANGED << htim15, NextState >>
  /\ UNCHANGED << State, stage, seqv, iflags, cflags, inputs, lampv, htim3, htim4,
                  htim5, irq5, ops, polled >>

\* the two hold thresholds exchanged
HoldThreshold_Swapped(w) == IF w = "w20_tim" THEN green_Delay ELSE red_delay_Max
HoldThreshold(w) == IF w = "w20_tim" THEN red_delay_Max ELSE green_Delay
\* a threshold beyond the auto-reload value of TIM15, which the count never reaches
HoldExpired_PastReload(w, cnt) == cnt > TIM15_ARR
HoldExpired(w, cnt) == cnt >= HoldThreshold(w)
\* expiry that selects the state of the intersection that is already green
AfterWait_KeepsGreen(w) ==
  IF intersection_green[1] THEN "Intersection1"
  ELSE IF intersection_green[2] THEN "Intersection2"
  ELSE NextState
\* the state selected at expiry: the one of the intersection that is not green
AfterWait(w) ==
  IF intersection_green[1] THEN "Intersection2"
  ELSE IF intersection_green[2] THEN "Intersection1"
  ELSE NextState

\* if (__HAL_TIM_GetCounter(&htim15) >= threshold) { stop_and_resetTimer(&htim15);
\*    if (intersection1_green) { NextState = Intersection2; start TIM4; break; } ...
\* } else NextState = <this wait state>
Traffic_wait_tim(w) ==
  /\ MainAt(w)
  /\ IF HoldExpired(w, htim15.cnt)
     THEN /\ htim15' = stop_and_resetTimer(htim15)
          /\ NextState' = AfterWait(w)
          /\ htim4' = IF intersection_green[1] \/ intersection_green[2]
                      THEN HAL_TIM_Base_Start(htim4) ELSE htim4
     ELSE /\ NextState' = (IF w = "w20_tim" THEN "Wait20s" ELSE "Wait30s")
          /\ UNCHANGED << htim15, htim4 >>
  /\ pc' = Top
  /\ UNCHANGED << State, stage, seqv, iflags, cflags, inputs, lampv, htim3, htim5,
                  irq5, ops, polled >>

\* Wait30s: if (!no_active_cars()) { stop_and_resetTimer(&htim15);
\*            if (intersection1_green) { NextState = Intersection1; break; }
\*            else if (intersection2_green) { NextState = Intersection2; break; } }
Traffic_w30_cars ==
  /\ MainAt("w30_cars")
  /\ IF car_active[pc.i]
     THEN /\ htim15' = stop_and_resetTimer(htim15)
          /\ IF intersection_green[1] \/ intersection_green[2]
             THEN /\ NextState' = (IF intersection_green[1] THEN "Intersection1"
                                   ELSE "Intersection2")
                  /\ pc' = Top
             ELSE /\ NextState' = NextState
                  /\ pc' = At("w30_pl", 1, 0)
     ELSE /\ pc' = IF pc.i < 4 THEN At("w30_cars", 0, pc.i + 1) ELSE At("w30_pl", 1, 0)
          /\ UNCHANGED << htim15, NextState >>
  /\ UNCHANGED << State, stage, seqv, iflags, cflags, inputs, lampv, htim3, htim4,
                  htim5, irq5, ops, polled >>

(* ------------------------ interrupt callbacks ------------------------- *)
\* HAL_GPIO_EXTI_Callback(PLc_Switch_Pin)
\* a latch condition that ignores a request already latched
Latches_IgnoresLatched(hit, red) == red
Latches(hit, red) == ~hit /\ red
HAL_GPIO_EXTI_Callback_PL(c) ==
  /\ IF Latches(PL_SW_HIT[c], crosswalk_red[c])
     THEN /\ PL_SW_HIT' = [PL_SW_HIT EXCEPT ![c] = TRUE]
          /\ htim3' = HAL_TIM_Base_Start(htim3)
          /\ htim4' = HAL_TIM_Base_Start(htim4)
     ELSE UNCHANGED << PL_SW_HIT, htim3, htim4 >>
  /\ UNCHANGED << ctlv, seqv, iflags, cflags, car_active, lampv, htim5, htim15, irq5,
                  pc, ops, polled >>

\* HAL_GPIO_EXTI_Callback(TLi_Car_Pin): the flag follows the (active-low) pin level
HAL_GPIO_EXTI_Callback_Car(i, level) ==
  /\ car_active' = [car_active EXCEPT ![i] = (level = 0)]
  /\ car_active' # car_active
  /\ UNCHANGED << ctlv, seqv, iflags, cflags, PL_SW_HIT, lampv, timv, pc, ops, polled >>

\* toggle_pedestrian(c), inside the TIM3 callback
ToggledBuffer(buf, tog, c) == IF tog THEN buf \ {PL_Blue(c)} ELSE buf \cup {PL_Blue(c)}
\* which crossing the blink tick toggles (0: none)
BlinkTarget ==
  IF PL_SW_HIT[1] /\ crosswalk_red[1] THEN 1
  ELSE IF PL_SW_HIT[2] /\ crosswalk_red[2] THEN 2 ELSE 0
\* which crossing's request the blink tick retires (0: none)
RetireTarget ==
  IF PL_SW_HIT[1] /\ crosswalk_green[1] THEN 1
  ELSE IF PL_SW_HIT[2] /\ crosswalk_green[2] THEN 2 ELSE 0

\* HAL_TIM_PeriodElapsedCallback, TIM3 branch (every 125 ms while TIM3 runs)
TIM3_PeriodElapsed ==
  /\ htim3.on
  /\ IF BlinkTarget # 0
     THEN /\ shiftreg_buffer' = ToggledBuffer(shiftreg_buffer, toggle, BlinkTarget)
          /\ toggle' = ~toggle
          /\ UNCHANGED << PL_SW_HIT, htim3 >>
     ELSE IF RetireTarget # 0
          THEN /\ shiftreg_buffer' = shiftreg_buffer \ {PL_Blue(RetireTarget)}
               /\ PL_SW_HIT' = [PL_SW_HIT EXCEPT ![RetireTarget] = FALSE]
               /\ htim3' = [on |-> FALSE, cnt |-> 0]
               /\ toggle' = toggle
          ELSE UNCHANGED << shiftreg_buffer, toggle, PL_SW_HIT, htim3 >>
  /\ UNCHANGED << ctlv, seqv, iflags, cflags, car_active, bitmask, htim4, htim5,
                  htim15, irq5, pc, ops, polled >>

\* which crossing the walk-timer callback stops (0: none)
WalkStopTarget ==
  IF crosswalk_green[1] /\ intersection_green[1] THEN 1
  ELSE IF crosswalk_green[2] /\ intersection_green[2] THEN 2 ELSE 0

\* HAL_TIM_PeriodElapsedCallback, TIM5 branch (TIM5 wrapped)
TIM5_PeriodElapsed ==
  /\ irq5
  /\ irq5' = FALSE
  /\ LET c == WalkStopTarget IN
       IF c # 0
       THEN /\ crosswalk_green' = [crosswalk_green EXCEPT ![c] = FALSE]
            /\ crosswalk_red' = [crosswalk_red EXCEPT ![c] = TRUE]
            /\ shiftreg_buffer' = (shiftreg_buffer \ {PL_Green(c)}) \cup {PL_Red(c)}
            /\ htim5' = [on |-> FALSE, cnt |-> 0]
       ELSE UNCHANGED << cflags, shiftreg_buffer, htim5 >>
  /\ UNCHANGED << ctlv, seqv, iflags, inputs, toggle, bitmask, htim3, htim4, htim15,
                  pc, ops, polled >>

\* One tick of the prescaled clock, taken between two loop iterations: the polled
\* counters TIM4 and TIM15 count if they run.
TickPolled ==
  /\ MainAt("top")
  /\ ~irq5
  /\ polled
  /\ htim4.on \/ htim5.on \/ htim15.on
  /\ htim4' = Count(htim4, TIM4_ARR)
  /\ htim15' = Count(htim15, TIM15_ARR)
  /\ polled' = FALSE
  /\ UNCHANGED << ctlv, seqv, iflags, cflags, inputs, lampv, htim3, pc, ops >>

\* A tick with the walk timer's phase left open: while TIM5 runs, any tick may be
\* the one at which it wraps and raises its update interrupt.
Tick ==
  /\ TickPolled
  /\ htim5' = htim5
  /\ irq5' \in {FALSE, htim5.on}

\* A tick with the walk timer counted: it wraps, and interrupts, after TIM5_ARR.
TickTimed ==
  /\ TickPolled
  /\ htim5' = Count(htim5, TIM5_ARR)
  /\ irq5' = (htim5.on /\ htim5.cnt >= TIM5_ARR)

(* --------------------------- specification ---------------------------- *)
Callee ==
  \/ Main_pin_rd \/ Main_pin_set \/ Main_pin_clr
  \/ Main_cw_green \/ Main_cw_red \/ Main_walk_hit
  \/ Main_go_intersection \/ Main_go_fin0 \/ Main_go_fin1
  \/ Main_stop_intersection \/ Main_stop_fin0 \/ Main_stop_fin1
  \/ Main_start4_stage1

Traffic ==
  \/ Traffic_loop
  \/ \E k \in {1, 2} :
       \/ Traffic_case(k) \/ Traffic_s0_delay(k) \/ Traffic_s1(k) \/ Traffic_s2(k)
       \/ Traffic_nac(k) \/ Traffic_aca(k) \/ Traffic_aco(k)
       \/ Traffic_r4k(k) \/ Traffic_r4o(k)
  \/ Traffic_wait_pl("w20_pl") \/ Traffic_wait_pl("w30_pl")
  \/ Traffic_wait_tim("w20_tim") \/ Traffic_wait_tim("w30_tim")
  \/ Traffic_w30_cars

Main == Traffic \/ Callee

Button == \E c \in {1, 2} : HAL_GPIO_EXTI_Callback_PL(c)
Sensor == \E i \in 1..4, level \in {0, 1} : HAL_GPIO_EXTI_Callback_Car(i, level)

Interrupts == Button \/ Sensor \/ TIM3_PeriodElapsed \/ TIM5_PeriodElapsed

Next == Main \/ Interrupts \/ Tick

Spec == Init /\ [][Next]_vars

\* Scheduling: the main loop never halts, a pending interrupt is served, and time
\* passes (a tick is possible only between two iterations, so over and over).
Fairness ==
  /\ WF_vars(Main)
  /\ WF_vars(TIM3_PeriodElapsed)
  /\ WF_vars(TIM5_PeriodElapsed)
  /\ SF_vars(Tick)

\* One sensor per intersection (cars 1 and 2); cars 3 and 4 stay inactive.
SensorFront == \E i \in {1, 2}, level \in {0, 1} : HAL_GPIO_EXTI_Callback_Car(i, level)

NextFront ==
  \/ Main \/ Button \/ SensorFront \/ TIM3_PeriodElapsed \/ TIM5_PeriodElapsed
  \/ Tick

FairSpec == Init /\ [][NextFront]_vars /\ Fairness

\* The walk timer counted tick by tick.

NextTimed ==
  \/ Main \/ Button \/ SensorFront \/ TIM3_PeriodElapsed \/ TIM5_PeriodElapsed
  \/ TickTimed

SpecTimed == Init /\ [][NextTimed]_vars

\* Calls with an identifier that is neither 1 nor 2, made by the main program
\* between two iterations (toggle_pedestrian as from a callback, in one step).
BadIds == {0, 3}

Call_go_intersection(id) ==
  /\ MainAt("top")
  /\ ops' = << Op("go_intersection", id, FALSE, {}) >>
  /\ UNCHANGED << ctlv, seqv, iflags, cflags, inputs, lampv, timv, pc, polled >>

Call_stop_intersection(id) ==
  /\ MainAt("top")
  /\ ops' = << Op("stop_intersection", id, FALSE, {}) >>
  /\ UNCHANGED << ctlv, seqv, iflags, cflags, inputs, lampv, timv, pc, polled >>

Call_go_pedestrian(id) ==
  /\ MainAt("top")
  /\ ops' = go_pedestrian(id)
  /\ UNCHANGED << ctlv, seqv, iflags, cflags, inputs, lampv, timv, pc, polled >>

Call_stop_pedestrian(id) ==
  /\ MainAt("top")
  /\ ops' = stop_pedestrian(id)
  /\ UNCHANGED << ctlv, seqv, iflags, cflags, inputs, lampv, timv, pc, polled >>

Call_toggle_pedestrian(id) ==
  /\ shiftreg_buffer' = ToggledBuffer(shiftreg_buffer, toggle, id)
  /\ toggle' = ~toggle
  /\ UNCHANGED << ctlv, seqv, iflags, cflags, inputs, bitmask, timv, pc, ops, polled >>

InvalidCall ==
  \E id \in BadIds :
    \/ Call_go_intersection(id) \/ Call_stop_intersection(id)
    \/ Call_go_pedestrian(id) \/ Call_stop_pedestrian(id)
    \/ Call_toggle_pedestrian(id)

NextCalls == NextFront \/ InvalidCall

SpecCalls == Init /\ [][NextCalls]_vars

(* ============================== claims ================================ *)
GreenLit(k) ==
  IF k = 1 THEN {"TL1_Green", "TL3_Green"} \cap shiftreg_buffer # {}
  ELSE {"TL2_Green", "TL4_Green"} \cap shiftreg_buffer # {}

\* C1: in every reachable state the two intersections are never Green together:
\* the flags intersection1_green and intersection2_green are never both set, and
\* no green lamp of intersection 1 is lit together with one of intersection 2.
C1_MutualExclusion ==
  /\ ~(intersection_green[1] /\ intersection_green[2])
  /\ ~(GreenLit(1) /\ GreenLit(2))

\* intersection 1 has been handed the right of way and shows Green
C1_Witness ==
  /\ State = "Intersection1" /\ stage[1] = 2
  /\ intersection_green[1] /\ GreenLit(1) /\ ~GreenLit(2)

\* C2: crosswalk K is Green only while intersection K is fully Red.
C2_CrosswalkOnlyWhenRed ==
  \A k \in {1, 2} : crosswalk_green[k] => intersection_red[k]

\* crosswalk 2 has been switched to Green by a hand-off
C2_Witness ==
  crosswalk_green[2] /\ intersection_red[2] /\ "PL2_Green" \in shiftreg_buffer

\* C3: once go_pedestrian has armed the walk timer (TIM5) for a crosswalk that
\* turned Green, the crosswalk is forced back to Red no later than the timer's
\* expiry: when the TIM5 period-elapsed callback runs, a crosswalk that is still
\* Green is Red afterwards, whatever the main loop is doing.
C3_WalkTimerForcesRed ==
  [][TIM5_PeriodElapsed =>
       \A c \in {1, 2} : (htim5.on /\ crosswalk_green[c]) => crosswalk_red'[c]]_vars

\* C4: every latched request PLk_SW_HIT is eventually served: crosswalk k becomes
\* Green, in whatever state or sub-stage the request was latched.
C4_RequestServed ==
  \A k \in {1, 2} : PL_SW_HIT[k] ~> crosswalk_green[k]

\* C5: if an approach of an intersection that is Red stays active, that
\* intersection eventually becomes Green (the sensors settling at some point).
C5_WaitingCarServed ==
  \A k \in {1, 2}, j \in {1, 2} :
    <>[][~Sensor]_vars =>
      []((intersection_red[k] /\ []car_active[CarOf(k, j)]) => <>intersection_green[k])

\* C6: in Wait20s, an iteration that is not pre-empted by a pedestrian and reads
\* TIM15 >= red_delay_Max selects the state of the intersection that is not Green
\* (the first such iteration already does, so Wait20s is left no later than that).
C6_Wait20sExpiry ==
  [][(Traffic_wait_tim("w20_tim") /\ State = "Wait20s" /\ htim15.cnt >= red_delay_Max)
       => \E k \in {1, 2} :
            /\ intersection_green[k] /\ ~intersection_green[Other(k)]
            /\ NextState' = StateOf(Other(k))]_vars

\* Wait20s has just been left at the expiry of the hold, not by a pedestrian
C6_Witness ==
  /\ State = "Wait20s" /\ NextState = "Intersection1" /\ MainAt("top")
  /\ intersection_green[2]
  /\ ~PL_SW_HIT[1] /\ ~PL_SW_HIT[2]
  /\ htim15 = [on |-> FALSE, cnt |-> 0] /\ htim4.on

\* C7: in Wait30s, an iteration that sees an approach active selects the state of
\* the Green intersection (Wait30s is left at once); otherwise an iteration that is
\* not pre-empted and reads TIM15 >= green_Delay selects the state of the
\* intersection that is not Green.
C7_Wait30sExit ==
  [][/\ (Traffic_w30_cars /\ State = "Wait30s" /\ car_active[pc.i])
          => \E k \in {1, 2} : intersection_green[k] /\ NextState' = StateOf(k)
     /\ (Traffic_wait_tim("w30_tim") /\ State = "Wait30s" /\ htim15.cnt >= green_Delay)
          => \E k \in {1, 2} :
               /\ intersection_green[k] /\ ~intersection_green[Other(k)]
               /\ NextState' = StateOf(Other(k))]_vars

\* Wait30s has just been left at the expiry of the idle hold, all approaches
\* being inactive and no request latched
C7_Witness ==
  /\ State = "Wait30s" /\ NextState = "Intersection1" /\ MainAt("top")
  /\ intersection_green[2]
  /\ \A i \in 1..4 : ~car_active[i]
  /\ ~PL_SW_HIT[1] /\ ~PL_SW_HIT[2]
  /\ htim15 = [on |-> FALSE, cnt |-> 0] /\ htim4.on

\* Wait30s has just been left because an approach was seen active
C7_WitnessCar ==
  /\ State = "Wait30s" /\ NextState = "Intersection2" /\ MainAt("top")
  /\ intersection_green[2] /\ car_active[3]
  /\ htim15 = [on |-> FALSE, cnt |-> 0]

BelowThreshold(st) ==
  \/ st = 0 /\ htim4.cnt < TIMER_2s
  \/ st = 1 /\ htim4.cnt < orange_Delay

\* C8: a call of go_intersection or stop_intersection made while the TIM4 count is
\* below the threshold of the sequencer's stage (TIMER_2s in stage 0, orange_Delay
\* in stage 1) returns at once and changes nothing: not the lamps, the colour
\* flags, the sequencer's stage, nor the count and running state of TIM4.
C8_EarlyCallNoOp ==
  [][/\ (Main_go_intersection /\ BelowThreshold(go_static.stage))
          => /\ UNCHANGED << shiftreg_buffer, iflags, cflags, htim4, stop_static >>
             /\ go_static'.stage = go_static.stage
             /\ ops' = Tail(ops)
     /\ (Main_stop_intersection /\ BelowThreshold(stop_static.stage))
          => /\ UNCHANGED << shiftreg_buffer, iflags, cflags, htim4, go_static >>
             /\ stop_static'.stage = stop_static.stage
             /\ ops' = Tail(ops)]_vars

\* an iteration called go_intersection(1) during amber, one tick into the
\* orange delay, and the call returned without effect
C8_Witness ==
  /\ MainAt("top") /\ polled
  /\ State = "Intersection1" /\ stage[1] = 1 /\ crosswalk_red[1]
  /\ go_static = [stage |-> 1, sel |-> 1]
  /\ htim4.on /\ htim4.cnt > 0 /\ htim4.cnt < orange_Delay
  /\ Yellows(1) \subseteq shiftreg_buffer /\ ~intersection_green[1]

\* no approach is active and no request is latched
Idle ==
  /\ \A i \in 1..4 : ~car_active[i]
  /\ \A c \in {1, 2} : ~PL_SW_HIT[c]

\* the lamps of intersection k show exactly the given colour
ShowsOnly(k, lamps) ==
  (Greens(k) \cup Yellows(k) \cup Reds(k)) \cap shiftreg_buffer = lamps

Int1GreenInt2Red ==
  /\ State = "Intersection1"
  /\ intersection_green[1] /\ ShowsOnly(1, {"TL1_Green", "TL3_Green"})
  /\ intersection_red[2] /\ ShowsOnly(2, {"TL2_Red", "TL4_Red"})

\* C9: from the initial state (Intersection2 Green), if no approach is ever
\* active and no request is ever latched, the controller enters Wait30s, stays
\* until the idle threshold green_Delay is read on TIM15, then intersection 2
\* shows amber alone, and after that Intersection1 is Green with intersection 2
\* fully Red.
C9_IdleScenario ==
  []Idle =>
    <>(/\ State = "Wait30s" /\ ShowsOnly(2, {"TL2_Green", "TL4_Green"})
       /\ <>(/\ State = "Wait30s" /\ htim15.cnt >= green_Delay
              /\ <>(/\ ShowsOnly(2, {"TL2_Yellow", "TL4_Yellow"})
                     /\ <>Int1GreenInt2Red)))

\* Intersection1 is Green and intersection 2 fully Red, nothing having been
\* requested: the blink timer and the walk timer were never started
C9_Witness ==
  /\ Int1GreenInt2Red /\ stage[1] = 2 /\ Idle
  /\ ~htim3.on /\ ~htim5.on /\ ~toggle

\* Crosswalk c has been Green for longer than a walk-timer period.  Intersection
\* Other(c) turns Green TIMER_2s + orange_Delay ticks after crosswalk c does, and
\* the idle hold begins after that, so a hold count h read in Wait30s means that
\* crosswalk c has been Green for at least h + TIMER_2s + orange_Delay ticks.
WalkCapExceeded(c) ==
  /\ crosswalk_green[c] /\ intersection_green[Other(c)]
  /\ State = "Wait30s"
  /\ htim5.on /\ ~irq5
  /\ htim15.cnt + TIMER_2s + orange_Delay > TIM5_ARR + 1

BothSidesWaiting ==
  /\ car_active[1] /\ car_active[2]
  /\ ~PL_SW_HIT[1] /\ ~PL_SW_HIT[2]

\* C11: when, between two iterations, Intersection1 is Green in sub-stage 2 and
\* from then on approaches of both intersections are active and no request is
\* latched, the controller enters Wait20s, stays until TIM15 reads red_delay_Max,
\* then intersection 1 goes Red while intersection 2 is not yet Green, and after
\* that Intersection2 is Green with intersection 1 Red.
C11_Wait20sScenario ==
  []((/\ MainAt("top") /\ NextState = "Intersection1" /\ stage[1] = 2
      /\ intersection_green[1]
      /\ []BothSidesWaiting)
     => <>(/\ State = "Wait20s" /\ intersection_green[1]
           /\ <>(/\ State = "Wait20s" /\ htim15.cnt >= red_delay_Max
                  /\ <>(/\ intersection_red[1] /\ ~intersection_green[2]
                         /\ <>(/\ State = "Intersection2"
                                /\ intersection_green[2] /\ intersection_red[1])))))

\* Wait20s, entered with Intersection1 Green, has just handed off at the expiry
\* of the hold while both sides were waiting
C11_Witness ==
  /\ State = "Wait20s" /\ NextState = "Intersection2" /\ MainAt("top")
  /\ intersection_green[1] /\ BothSidesWaiting
  /\ htim15 = [on |-> FALSE, cnt |-> 0] /\ htim4.on

\* an approach of intersection k (cars 1, 3 or cars 2, 4) is active
ApproachActive(k) ==
  IF k = 1 THEN car_active[1] \/ car_active[3] ELSE car_active[2] \/ car_active[4]
AnyApproachActive == \E i \in 1..4 : car_active[i]

\* the rule of sub-stage 2 that the present flags select for intersection k
Decision(k) ==
  IF PL_SW_HIT[k] THEN "other"
  ELSE IF ~AnyApproachActive THEN "Wait30s"
  ELSE IF ApproachActive(k) /\ ApproachActive(Other(k)) THEN "Wait20s"
  ELSE IF ApproachActive(k) THEN "remain"
  ELSE "handoff"

\* the main program is inside the evaluation of sub-stage 2 of intersection k
InEvaluation(k) ==
  /\ ops = << >> /\ pc.k = k
  /\ pc.l \in {"s2", "nac", "aca", "aco", "r4k", "r4o"}

\* the flags as they are now lead an evaluation to the place where it is (the
\* flags read so far have the values they had when they were read)
FlagsHeld(k) ==
  CASE pc.l = "s2" -> TRUE
    [] pc.l = "nac" -> ~PL_SW_HIT[k] /\ \A j \in 1..(pc.i - 1) : ~car_active[j]
    [] pc.l = "aca" -> /\ ~PL_SW_HIT[k] /\ AnyApproachActive
                       /\ (pc.i = 2 => ~car_active[IF k = 1 THEN 1 ELSE 2])
    [] pc.l = "aco" -> /\ ~PL_SW_HIT[k] /\ ApproachActive(k)
                       /\ (pc.i = 2 => ~car_active[IF k = 1 THEN 2 ELSE 1])
    [] pc.l = "r4k" -> ~PL_SW_HIT[k] /\ AnyApproachActive /\ ~ApproachActive(k)
    [] pc.l = "r4o" -> /\ ~PL_SW_HIT[k] /\ AnyApproachActive /\ ~ApproachActive(k)
                       /\ (pc.i = 2 => ~car_active[IF k = 1 THEN 2 ELSE 1])
    [] OTHER -> FALSE

\* what a step that ends the evaluation of intersection k has done, per rule
Decided(k, rule) ==
  CASE rule = "other" -> /\ NextState' = StateOf(Other(k)) /\ stage'[k] = 0
                         /\ UNCHANGED timv
    [] rule = "Wait30s" -> /\ NextState' = "Wait30s" /\ stage'[k] = 0
                           /\ htim15'.on /\ UNCHANGED << htim3, htim4, htim5 >>
    [] rule = "Wait20s" -> /\ NextState' = "Wait20s" /\ stage'[k] = 0
                           /\ htim15'.on /\ UNCHANGED << htim3, htim4, htim5 >>
    [] rule = "remain" -> /\ NextState' = StateOf(k) /\ stage'[k] = 2
                          /\ UNCHANGED timv
    [] OTHER -> /\ NextState' = StateOf(Other(k)) /\ stage'[k] = 0
                /\ htim4'.on /\ UNCHANGED << htim3, htim5, htim15 >>

\* C12: in sub-stage 2 of IntersectionK the rules are applied in a fixed order of
\* priority, for every combination of crosswalk K's pending flag and the four
\* approach flags held during the evaluation: pending K selects the other
\* state; else no approach anywhere selects Wait30s with TIM15 started; else
\* approaches at K and at the other selects Wait20s with TIM15 started; else an
\* approach at K only remains in sub-stage 2; else the other state is selected
\* with TIM4 started. A step of the evaluation made with the flags held either
\* continues the evaluation with the flags held or ends it as that rule says;
\* the other crosswalk's pending flag takes no part.
C12_PriorityOrder ==
  [][\A k \in {1, 2} :
       (InEvaluation(k) /\ FlagsHeld(k) /\ pc' # pc /\ State = StateOf(k))
       => IF pc' = Top THEN Decided(k, Decision(k))
          ELSE InEvaluation(k)' /\ FlagsHeld(k)' /\ UNCHANGED << ctlv, timv >>]_vars

\* rule 5 has just handed off from Intersection1: only an approach of
\* intersection 2 is active, nothing is pending, TIM4 runs
C12_Witness ==
  /\ MainAt("top") /\ State = "Intersection1" /\ NextState = "Intersection2"
  /\ stage[1] = 0 /\ intersection_green[1]
  /\ ~PL_SW_HIT[1] /\ PL_SW_HIT[2]
  /\ ~ApproachActive(1) /\ ApproachActive(2)
  /\ htim4.on /\ ~htim15.on

\* intersection k is Green in sub-stage 2, only its own approaches are active
\* and crosswalk k has no request; the main program is between two iterations,
\* on its way to sub-stage 2, or evaluating it with the flags held
OwnTrafficOnly(k) ==
  /\ State = StateOf(k) /\ NextState = StateOf(k) /\ stage[k] = 2
  /\ intersection_green[k]
  /\ ApproachActive(k) /\ ~ApproachActive(Other(k)) /\ ~PL_SW_HIT[k]
  /\ \/ MainAt("top")
     \/ ops = << >> /\ pc.k = k /\ pc.l \in {"case", "s1"}
     \/ InEvaluation(k) /\ FlagsHeld(k)

\* C13: while intersection K is Green in sub-stage 2 with an approach at K
\* active, none at the other intersection and no request pending for crosswalk K,
\* every step of the main program stays in IntersectionK, sub-stage 2, and
\* changes no lamp, no colour flag and no timer.
C13_RemainFrame ==
  [][\A k \in {1, 2} :
       (OwnTrafficOnly(k) /\ Main)
       => /\ UNCHANGED << lampv, iflags, cflags, timv, seqv >>
          /\ State' = StateOf(k) /\ NextState' = StateOf(k) /\ stage'[k] = 2]_vars

\* an iteration of Intersection2 has just ended by remaining in sub-stage 2
C13_Witness ==
  /\ OwnTrafficOnly(2) /\ MainAt("top") /\ polled
  /\ car_active[4] /\ ~car_active[2] /\ ~htim4.on /\ ~htim15.on

RedPair(k) == IF k = 1 THEN {"TL1_Red", "TL3_Red"} ELSE {"TL2_Red", "TL4_Red"}
AmberPair(k) ==
  IF k = 1 THEN {"TL1_Yellow", "TL3_Yellow"} ELSE {"TL2_Yellow", "TL4_Yellow"}
GreenPair(k) ==
  IF k = 1 THEN {"TL1_Green", "TL3_Green"} ELSE {"TL2_Green", "TL4_Green"}
\* the vehicle lamps of intersection k that are lit
Lamps(k) == shiftreg_buffer \cap (RedPair(k) \cup AmberPair(k) \cup GreenPair(k))

\* C14: every change of an intersection's vehicle lamps between Red and Green
\* passes through amber. No step takes the lamps from Red to Green or from Green
\* to Red; the lamps change only Red -> off -> amber -> off -> Green (the
\* sequencer of go_intersection in stage 0, then 1) or Green -> off -> amber ->
\* off -> Red (stop_intersection), "off" being the moment between clear_pin and
\* set_pin of one call, so amber is never lit together with another colour.
C14_ThroughAmber ==
  [][\A k \in {1, 2} :
       Lamps(k)' # Lamps(k) =>
         \/ Lamps(k) = RedPair(k) /\ Lamps(k)' = {}
              /\ go_static.stage = 0 /\ ops' # << >>
         \/ Lamps(k) = {} /\ Lamps(k)' = AmberPair(k)
              /\ ((go_static.stage = 0 /\ intersection_red[k])
                  \/ (stop_static.stage = 0 /\ intersection_green[k]))
         \/ Lamps(k) = AmberPair(k) /\ Lamps(k)' = {} /\ ops' # << >>
              /\ ~intersection_red[k] /\ ~intersection_green[k]
         \/ Lamps(k) = {} /\ Lamps(k)' = GreenPair(k)
              /\ go_static.stage = 1 /\ ~intersection_red[k]
         \/ Lamps(k) = GreenPair(k) /\ Lamps(k)' = {}
              /\ stop_static.stage = 0 /\ ops' # << >>
         \/ Lamps(k) = {} /\ Lamps(k)' = RedPair(k)
              /\ stop_static.stage = 1 /\ ~intersection_green[k]]_vars

\* intersection 1 shows amber alone on its way from Red to Green
C14_Witness ==
  /\ Lamps(1) = AmberPair(1) /\ go_static = [stage |-> 1, sel |-> 1]
  /\ ~intersection_red[1] /\ ~intersection_green[1]
  /\ Lamps(2) = RedPair(2)

\* C15: when go_intersection or stop_intersection completes (the call that
\* switches amber to the target colour and resets the stage to 0), TIM4 is
\* running after that call.
C15_TimerLeftRunning ==
  [][(Main_go_fin1 \/ Main_stop_fin1) => htim4'.on]_vars

\* C16: whenever the main program is about to poll TIM4 in go_intersection or
\* stop_intersection (the Arbiter is in a sub-stage that invokes the sequencer),
\* TIM4 is running: every hand-off has armed it, and the sequencer never polls
\* a stopped timer.
C16_PolledTimerRuns ==
  (MainOp("go_intersection") \/ MainOp("stop_intersection")) => htim4.on

\* C17: a call of go_intersection, stop_intersection, go_pedestrian,
\* stop_pedestrian or toggle_pedestrian with an identifier outside {1, 2} is a
\* no-op in every state, the sequencer's stage 1 included: it changes no lamp,
\* no colour flag, no pending flag, no sequencer stage and no timer.
C17_InvalidIdNoOp ==
  [][/\ (MainOp("go_intersection") /\ Head(ops).k \in BadIds /\ Main_go_intersection)
        => /\ ops' = Tail(ops) /\ go_static'.stage = go_static.stage
           /\ UNCHANGED << shiftreg_buffer, iflags, cflags, PL_SW_HIT, timv >>
     /\ (MainOp("stop_intersection") /\ Head(ops).k \in BadIds
           /\ Main_stop_intersection)
        => /\ ops' = Tail(ops) /\ stop_static'.stage = stop_static.stage
           /\ UNCHANGED << shiftreg_buffer, iflags, cflags, PL_SW_HIT, timv >>
     /\ \A id \in BadIds :
          (\/ Call_go_pedestrian(id) \/ Call_stop_pedestrian(id)
           \/ Call_toggle_pedestrian(id))
          => /\ ops' = << >>
             /\ UNCHANGED << shiftreg_buffer, iflags, cflags, PL_SW_HIT, timv >>]_vars

\* C18: a button edge for crosswalk k latches PLk_SW_HIT and starts the blink
\* timer TIM3 if and only if crosswalk k is Red and no request for k is latched;
\* a press while the request is latched, or while crosswalk k is Green, leaves
\* every flag and every timer unchanged.
C18_LatchOnce ==
  [][\A c \in {1, 2} :
       HAL_GPIO_EXTI_Callback_PL(c) =>
         IF crosswalk_red[c] /\ ~PL_SW_HIT[c]
         THEN /\ PL_SW_HIT'[c] /\ htim3'.on
              /\ PL_SW_HIT'[Other(c)] = PL_SW_HIT[Other(c)]
              /\ UNCHANGED << iflags, cflags, car_active >>
         ELSE UNCHANGED << PL_SW_HIT, iflags, cflags, car_active, timv >>]_vars

\* a press has just latched the request of crosswalk 2 while Intersection2 is
\* Green in sub-stage 2
C18_Witness ==
  /\ PL_SW_HIT[2] /\ ~PL_SW_HIT[1] /\ crosswalk_red[2]
  /\ State = "Intersection2" /\ stage[2] = 2 /\ intersection_green[2]
  /\ htim3 = [on |-> TRUE, cnt |-> 0] /\ htim4 = [on |-> TRUE, cnt |-> 0]
  /\ ~toggle /\ "PL2_Blue" \notin shiftreg_buffer

\* the vehicle and pedestrian lamps that the colour flags describe
LampsOfFlags ==
  UNION {(IF intersection_green[k] THEN GreenPair(k) ELSE {})
           \cup (IF intersection_red[k] THEN RedPair(k) ELSE {}) : k \in {1, 2}}
  \cup (IF crosswalk_green[1] THEN {"PL1_Green"} ELSE {})
  \cup (IF crosswalk_red[1] THEN {"PL1_Red"} ELSE {})
  \cup (IF crosswalk_green[2] THEN {"PL2_Green"} ELSE {})
  \cup (IF crosswalk_red[2] THEN {"PL2_Red"} ELSE {})

DefaultState ==
  /\ State = "Intersection2"
  /\ intersection_green[2] /\ ~intersection_red[2]
  /\ intersection_red[1] /\ ~intersection_green[1]
  /\ crosswalk_green[1] /\ ~crosswalk_red[1]
  /\ crosswalk_red[2] /\ ~crosswalk_green[2]
  /\ ~PL_SW_HIT[1] /\ ~PL_SW_HIT[2]
  /\ \A i \in 1..4 : ~car_active[i]
  /\ shiftreg_buffer = LampsOfFlags

\* C19: the system starts in the fixed default state -- controller state
\* Intersection2, Intersection2 Green, Intersection1 Red, crosswalk 1 Green,
\* crosswalk 2 Red, no pending request, all approaches inactive, and the lamps of
\* init_state exactly those the flags describe -- and the first loop iteration,
\* begun in that state, runs case Intersection2.
C19_DefaultAtStart ==
  /\ DefaultState
  /\ [][(Traffic_loop /\ Init) => (DefaultState' /\ pc' = At("case", 2, 0))]_vars

\* the first iteration has entered case Intersection2 in the default state
C19_Witness ==
  /\ DefaultState /\ ops = << >> /\ pc = At("case", 2, 0) /\ polled
  /\ stage = << 0, 0 >> /\ ~htim3.on /\ ~htim4.on /\ ~htim5.on /\ ~htim15.on
  /\ go_static.sel = 0 /\ stop_static.sel = 0

CrossingOfCall == Other(pc.k)

\* C21: go_pedestrian(c) sets crossing c Green (green flag set, red flag
\* cleared, red lamp off, green lamp on) and starts the walk timer TIM5 exactly
\* when crossing c's own flag PLc_SW_HIT is set at the time of the call: with
\* no request pending for crossing c the walk timer is not started.
C21_ArmsOnOwnRequest ==
  [][(MainOp("walk_hit") /\ pc.l = "s1" /\ Main_walk_hit)
     => LET c == CrossingOfCall IN
          /\ crosswalk_green[c] /\ ~crosswalk_red[c]
          /\ PL_Green(c) \in shiftreg_buffer /\ PL_Red(c) \notin shiftreg_buffer
          /\ (Len(ops') < Len(ops)) => (htim5'.on <=> (PL_SW_HIT[c] \/ htim5.on))
          /\ (htim5' # htim5) => PL_SW_HIT[c]]_vars

\* C22: the indicator lamp PLc_Blue is switched on only while a request for
\* crossing c is pending and crossing c is Red, and once crossing c is Green a
\* tick of the blink timer TIM3 leaves PLc_Blue off, also while a request for
\* the other crossing is pending.
C22_IndicatorOff ==
  [][\A c \in {1, 2} :
       /\ (PL_Blue(c) \in shiftreg_buffer' /\ PL_Blue(c) \notin shiftreg_buffer)
          => (PL_SW_HIT[c] /\ crosswalk_red[c])
       /\ (TIM3_PeriodElapsed /\ crosswalk_green[c] /\ ~crosswalk_red[c])
          => PL_Blue(c) \notin shiftreg_buffer']_vars

\* Wait30s has been cancelled in favour of intersection k, which is still Green
CancelledTo(k) ==
  /\ MainAt("top") /\ State = "Wait30s" /\ NextState = StateOf(k)
  /\ intersection_green[k]

\* from the cancellation until IntersectionK is in sub-stage 2
Returning(k) ==
  /\ NextState = StateOf(k) /\ State \in {"Wait30s", StateOf(k)}
  /\ intersection_green[k] /\ stage[k] < 2

\* C23: in Wait30s, the iteration that reads an active approach stops and zeroes
\* TIM15 and selects the state of the intersection that is still Green, changing
\* no lamp and no colour flag; back in that state the main program calls no
\* sequencer and changes no lamp until it reaches sub-stage 2, which it does.
C23_CancelledWait ==
  /\ [][(Traffic_w30_cars /\ car_active[pc.i])
        => /\ htim15' = [on |-> FALSE, cnt |-> 0] /\ pc' = Top
           /\ \E k \in {1, 2} : intersection_green[k] /\ ~intersection_green[Other(k)]
                                 /\ NextState' = StateOf(k)
           /\ UNCHANGED << shiftreg_buffer, iflags, cflags, htim4 >>]_vars
  /\ [][\A k \in {1, 2} :
          (Returning(k) /\ Main)
          => /\ UNCHANGED << shiftreg_buffer, iflags, cflags, seqv >>
             /\ ops' = << >>]_vars
  /\ \A k \in {1, 2} : CancelledTo(k) ~> (State = StateOf(k) /\ stage[k] = 2)

\* Wait30s has just been cancelled for Intersection1 by an approach of
\* intersection 2
C23_Witness ==
  /\ CancelledTo(1) /\ stage[1] = 0 /\ car_active[2] /\ ~car_active[1]
  /\ htim15 = [on |-> FALSE, cnt |-> 0] /\ ~htim4.on
  /\ ~PL_SW_HIT[1] /\ ~PL_SW_HIT[2]

\* the main program is in an iteration of a wait state and has not yet passed
\* the test of crosswalk K's request
BeforeRequestTest(K) ==
  /\ ops = << >>
  /\ \/ pc.l = "w30_cars"
     \/ pc.l \in {"w20_pl", "w30_pl"} /\ pc.k <= K

\* C24: in Wait20s and in Wait30s alike, an iteration made while PLK_SW_HIT is
\* set and intersection K is Green hands off to the other intersection's state
\* and stops and zeroes TIM15, without waiting for the hold threshold, also when
\* an approach is active: the iteration does not end before the test of
\* crosswalk K's request in any other way.
C24_RequestPreemptsWait ==
  [][\A K \in {1, 2} :
       (BeforeRequestTest(K) /\ PL_SW_HIT[K] /\ intersection_green[K]
          /\ Traffic /\ pc' = Top)
       => /\ NextState' = StateOf(Other(K))
          /\ htim15' = [on |-> FALSE, cnt |-> 0]]_vars

\* the step that selects Wait20s
EntersWait20s == NextState' = "Wait20s" /\ NextState # "Wait20s"

C26_HandOffOrder ==
  [][\A K \in {1, 2} :
       LET O == Other(K) IN
       /\ (crosswalk_green[K] /\ ~crosswalk_green'[K])
          => (intersection_red[O] /\ Lamps(O) = RedPair(O) /\ intersection_red[K])
       /\ (~crosswalk_green[O] /\ crosswalk_green'[O])
          => /\ intersection_red[O] /\ intersection_red[K]
             /\ crosswalk_red[K] /\ ~crosswalk_green[K]
             /\ PL_Red(K) \in shiftreg_buffer /\ PL_Green(K) \notin shiftreg_buffer
       /\ (MainOp("go_intersection") /\ Head(ops).k = K)
          => /\ intersection_red[O] /\ Lamps(O) = RedPair(O)
             /\ crosswalk_red[K] /\ ~crosswalk_green[K]
             /\ crosswalk_green[O] /\ ~crosswalk_red[O]
             /\ PL_Green(O) \in shiftreg_buffer /\ PL_Red(O) \notin shiftreg_buffer
       /\ (intersection_red[K] /\ ~intersection_red'[K]) => ~crosswalk_green[K]
       /\ (Lamps(K) = RedPair(K) /\ Lamps(K)' # RedPair(K))
          => (~crosswalk_green[K] /\ crosswalk_red[K])]_vars

\* the hand-off to Intersection1 has swapped the crosswalks and has not yet
\* invoked go_intersection(1)
C26_Witness ==
  /\ MainOp("start4_stage1") /\ pc.k = 1 /\ State = "Intersection1" /\ stage[1] = 0
  /\ intersection_red[1] /\ intersection_red[2]
  /\ crosswalk_red[1] /\ crosswalk_green[2]
  /\ go_static.stage = 0

\* sub-stage 0 of the hand-off to IntersectionK, before the crosswalks are swapped
HandOffStage0(K) ==
  /\ State = StateOf(K) /\ NextState = StateOf(K) /\ stage[K] = 0
  /\ ~intersection_green[K] /\ pc.l \in {"top", "case", "s0_delay"}

\* C27: in sub-stage 0 the crosswalks are swapped when pedestrian_Delay ticks of
\* TIM4 have elapsed measured from the start of stopping the other intersection
\* (the first stop_intersection call of the hand-off), not from a later re-arming
\* of TIM4: during sub-stage 0 the count of TIM4 is never set back.
C27_MeasuredFromStart ==
  [][\A K \in {1, 2} :
       (HandOffStage0(K) /\ pc'.l # "s1") => htim4'.cnt >= htim4.cnt]_vars

\* C27, amended: the crosswalks are swapped when TIM4 reads pedestrian_Delay
\* measured from the re-arming made by the completing call of stop_intersection:
\* that call leaves TIM4 running from zero, the main program does not touch TIM4
\* between that call and the swap, and the swap is made with the other
\* intersection Red and TIM4 at pedestrian_Delay or more.
C27_MeasuredFromRed ==
  /\ [][Main_stop_fin1 => htim4' = [on |-> TRUE, cnt |-> 0]]_vars
  /\ [][\A K \in {1, 2} :
          (HandOffStage0(K) /\ intersection_red[Other(K)] /\ Main /\ pc'.l # "s1")
          => htim4' = htim4]_vars
  /\ [][\A K \in {1, 2} :
          (Traffic_s0_delay(K) /\ pc'.l = "s1")
          => /\ intersection_red[Other(K)] /\ htim4.cnt >= pedestrian_Delay
             /\ htim4.on /\ ops' = SwapCrosswalks(K)]_vars

\* the other intersection is Red and TIM4 has just reached pedestrian_Delay
C27_Witness ==
  /\ MainAt("s0_delay") /\ pc.k = 1 /\ HandOffStage0(1)
  /\ intersection_red[2] /\ Lamps(2) = RedPair(2)
  /\ htim4 = [on |-> TRUE, cnt |-> pedestrian_Delay]
  /\ crosswalk_green[1]

\* a step that starts TIM4 for a hand-off: the latch of a request by the button
\* callback, rule 4 of sub-stage 2, or the expiry of a wait state
ArmsTransitionTimer ==
  \/ \E c \in {1, 2} :
       HAL_GPIO_EXTI_Callback_PL(c) /\ ~PL_SW_HIT[c] /\ PL_SW_HIT'[c]
  \/ \E k \in {1, 2} :
       Traffic_r4o(k) /\ pc' = Top /\ NextState' = StateOf(Other(k))
  \/ \E w \in {"w20_tim", "w30_tim"} :
       Traffic_wait_tim(w) /\ NextState' \in {"Intersection1", "Intersection2"}

\* C28: TIM4 is never started for a new use while it is still running for a
\* previous one: wherever the Arbiter or the button callback starts TIM4 for a
\* hand-off, TIM4 is stopped with count zero.
C28_ArmedFromRest ==
  [][ArmsTransitionTimer => htim4 = [on |-> FALSE, cnt |-> 0]]_vars

\* the approach flags as they are now select the hand-off away from
\* intersection k: none of its own approaches is active, one of the other's is
HandOffSnapshot(k) == ~ApproachActive(k) /\ ApproachActive(Other(k))

\* nothing gives a ground to leave intersection k: the flags do not select the
\* hand-off, crosswalk k has no request, and no wait state has been selected
NoGroundToLeave(k) ==
  /\ ~HandOffSnapshot(k) /\ ~PL_SW_HIT[k]
  /\ NextState \notin {"Wait20s", "Wait30s"}

\* C29: a sensor flag that changes between the flag reads of one evaluation
\* does no harm: a hand-off that no snapshot of the approach flags selects is
\* undone by the next iteration before any lamp has changed. In a run where the
\* flags never select the hand-off away from intersection 2, crosswalk 2 never
\* has a request and no wait state is ever selected, intersection 2, Green at
\* the start, therefore stays Green.
C29_TornReadUndone ==
  []NoGroundToLeave(2) => [](Lamps(2) = GreenPair(2))

\* a hand-off to intersection K has begun / has completed
HandOffBegun(K) == NextState = StateOf(K) /\ ~intersection_green[K]
HandOffComplete(K) ==
  intersection_green[K] /\ State = StateOf(K) /\ stage[K] = 2

\* C30: every hand-off that begins eventually completes: whenever the next
\* state is IntersectionK while intersection K is not Green, intersection K
\* eventually is Green with the controller in sub-stage 2 of IntersectionK,
\* whatever the button and sensor interrupts do, as long as the loop keeps
\* iterating and the running timers keep counting.
C30_HandOffCompletes ==
  \A K \in {1, 2} : HandOffBegun(K) ~> HandOffComplete(K)

\* the Arbiter calls stop_intersection(Other(K)) / go_intersection(K) in every
\* iteration: the sequencer is polled at every tick
StopUnderWay(K) ==
  /\ State = StateOf(K) /\ stage[K] = 0
  /\ ~intersection_green[K] /\ ~intersection_red[Other(K)]
GoUnderWay(K) ==
  /\ State = StateOf(K) /\ stage[K] = 1 /\ crosswalk_red[K]
  /\ ~intersection_green[K]
\* the length of a sequencer stage: the clearance, then amber
StageTicks(st) == IF st = 0 THEN TIMER_2s ELSE orange_Delay
\* the poll of a sequencer that ends its stage
StageEnds == ops' # << >> /\ Head(ops').op = "pin_clr"

\* C31: polled at every tick, a go_intersection or stop_intersection sequence
\* takes TIMER_2s + orange_Delay ticks from the arming of TIM4 to completion and
\* amber is lit for at least orange_Delay ticks, whatever the sensors and buttons
\* do. While a sequence is polled TIM4 never counts past the length of the
\* stage (the poll at that count ends the stage); a stage ends only at that
\* count or later; amber starts with TIM4 started from zero, and at every tick
\* of the amber stage the amber pair is lit.
C31_SequenceTicks ==
  /\ [][\A K \in {1, 2} :
         /\ (Tick /\ StopUnderWay(K))
            => /\ htim4'.cnt <= StageTicks(stop_static.stage)
               /\ stop_static.stage = 1
                  => /\ Lamps(Other(K)) = AmberPair(Other(K))
                     /\ htim4' = [on |-> TRUE, cnt |-> htim4.cnt + 1]
         /\ (Tick /\ GoUnderWay(K))
            => /\ htim4'.cnt <= StageTicks(go_static.stage)
               /\ go_static.stage = 1
                  => /\ Lamps(K) = AmberPair(K)
                     /\ htim4' = [on |-> TRUE, cnt |-> htim4.cnt + 1]]_vars
  /\ [][(Main_stop_intersection /\ StageEnds)
        => htim4.cnt >= StageTicks(stop_static.stage)]_vars
  /\ [][(Main_go_intersection /\ StageEnds)
        => htim4.cnt >= StageTicks(go_static.stage)]_vars
  /\ [][(Main_go_fin0 \/ Main_stop_fin0) => htim4' = [on |-> TRUE, cnt |-> 0]]_vars

\* a stop sequence of intersection 2 completes while a car waits at
\* intersection 1 and a request is pending for crosswalk 2
C31_Witness ==
  /\ MainOp("stop_fin1") /\ Head(ops).k = 2 /\ stop_static.stage = 1
  /\ car_active[1] /\ PL_SW_HIT[2]
  /\ Lamps(2) = RedPair(2)

\* no request is pending: nothing pre-empts a wait or disturbs a hand-off
NoPreemption == ~PL_SW_HIT[1] /\ ~PL_SW_HIT[2]
\* the ticks of one hand-off: stop sequence, pedestrian delay, go sequence
HandOffTicks ==
  (TIMER_2s + orange_Delay) + pedestrian_Delay + (TIMER_2s + orange_Delay)
\* the ticks held in a wait state before the hand-off
HoldTicks(s) == IF s = "Wait20s" THEN red_delay_Max ELSE green_Delay

InSubStage1(K) == State = StateOf(K) /\ stage[K] = 1

\* C33: whenever the controller is in IntersectionK with sub-stage counter 1,
\* crosswalk K is Red; hence the sub-stage 1 test of a case block always ends
\* the iteration with its break or goes on to sub-stage 2 of the same block,
\* and control never falls through into the code of the next case label.
C33_NoFallThrough ==
  /\ \A K \in {1, 2} : InSubStage1(K) => crosswalk_red[K]
  /\ [][\A K \in {1, 2} : InSubStage1(K)' => crosswalk_red'[K]]_vars
  /\ [][\A K \in {1, 2} :
         Traffic_s1(K) => /\ pc'.l \in {"top", "s2"}
                          /\ pc'.l = "s2" => pc'.k = K /\ stage[K] = 2]_vars

\* the crosswalks have just been swapped for the hand-off to Intersection1:
\* sub-stage 1 is about to call go_intersection(1) with crosswalk 1 Red
C33_Witness ==
  /\ MainAt("s1") /\ pc.k = 1 /\ InSubStage1(1)
  /\ crosswalk_red[1] /\ crosswalk_green[2] /\ ~intersection_green[1]

WaitStates == {"Wait20s", "Wait30s"}
\* the controller is in a wait state, or has selected one
InWait == State \in WaitStates \/ NextState \in WaitStates
\* exactly one of intersection1_green and intersection2_green is set
OneGreen == intersection_green[1] # intersection_green[2]
\* the intersection whose green flag is set
GreenOne == IF intersection_green[1] THEN 1 ELSE 2

\* C34: whenever the controller is in Wait20s or Wait30s exactly one of
\* intersection1_green and intersection2_green is set, so an expiry or a
\* pre-emption always selects the state of the intersection that is not Green,
\* and the controller is never left in a wait state with TIM15 stopped: while a
\* wait state is the next state TIM15 runs.
C34_WaitHasOneGreen ==
  /\ InWait => OneGreen
  /\ [][InWait' => OneGreen']_vars
  /\ [][NextState' \in WaitStates => htim15'.on]_vars
  /\ [][\A w \in {"w20_tim", "w30_tim"} :
         (Traffic_wait_tim(w) /\ htim15' # htim15)
         => /\ htim15' = [on |-> FALSE, cnt |-> 0]
            /\ NextState' = StateOf(Other(GreenOne))]_vars
  /\ [][\A w \in {"w20_pl", "w30_pl"} :
         (Traffic_wait_pl(w) /\ htim15' # htim15)
         => /\ htim15' = [on |-> FALSE, cnt |-> 0]
            /\ NextState' = StateOf(Other(GreenOne))]_vars
  /\ [][(Traffic_w30_cars /\ htim15' # htim15)
        => /\ htim15' = [on |-> FALSE, cnt |-> 0]
           /\ NextState' = StateOf(GreenOne)]_vars

\* Wait30s expires with intersection 1 Green: Intersection2 is selected
C34_Witness ==
  /\ MainAt("top") /\ State = "Wait30s" /\ NextState = "Intersection2"
  /\ intersection_green[1] /\ ~intersection_green[2]
  /\ htim15 = [on |-> FALSE, cnt |-> 0] /\ htim4.on /\ ~AnyApproachActive
  /\ NoPreemption

\* C35: a latched request flag is cleared only after its own crossing has
\* turned Green, and it does not stay set across a Green phase of its crossing,
\* also when requests for both crossings are pending at overlapping times: a
\* step that clears PLc_SW_HIT finds crosswalk c Green, and every TIM3 callback
\* that runs while crosswalk c is Green with its flag set clears the flag.
C35_ClearedWhenGreen ==
  [][\A c \in {1, 2} :
       /\ (PL_SW_HIT[c] /\ ~PL_SW_HIT'[c]) => crosswalk_green[c]
       /\ (TIM3_PeriodElapsed /\ PL_SW_HIT[c]
              /\ crosswalk_green[c] /\ ~crosswalk_red[c])
          => ~PL_SW_HIT'[c]]_vars

\* no call of the main program is under way
BetweenCalls == ops = << >>
\* the lamps of intersection k agree with its colour flags
IntersectionAgrees(k) ==
  /\ Lamps(k) \in {RedPair(k), AmberPair(k), GreenPair(k)}
  /\ intersection_green[k] <=> Lamps(k) = GreenPair(k)
  /\ intersection_red[k] <=> Lamps(k) = RedPair(k)
  /\ (~intersection_green[k] /\ ~intersection_red[k]) <=> Lamps(k) = AmberPair(k)
\* the lamps of crosswalk c agree with its colour flags
CrosswalkAgrees(c) ==
  /\ crosswalk_green[c] # crosswalk_red[c]
  /\ crosswalk_green[c] <=> PL_Green(c) \in shiftreg_buffer
  /\ crosswalk_red[c] <=> PL_Red(c) \in shiftreg_buffer

\* C36: after every completed sequencer or crossing-manager call the lamps
\* agree with the colour flags: each intersection has exactly one of its red,
\* amber and green pairs lit, its green (red) flag is set exactly when the green
\* (red) pair is lit and both flags are clear exactly during amber; each
\* crosswalk has exactly one of its two flags set, matching the lit lamp.
C36_LampsAgreeWithFlags ==
  BetweenCalls
  => \A k \in {1, 2} : IntersectionAgrees(k) /\ CrosswalkAgrees(k)

\* the first call of stop_intersection(2) that acts has completed: amber
C36_Witness ==
  /\ MainAt("s0_delay") /\ pc.k = 1 /\ stop_static = [stage |-> 1, sel |-> 2]
  /\ Lamps(2) = AmberPair(2) /\ ~intersection_green[2] /\ ~intersection_red[2]
  /\ crosswalk_green[1] /\ PL_Green(1) \in shiftreg_buffer

\* C37: TIM15 runs exactly while the next state is Wait20s or Wait30s; in every
\* other state it is stopped with count zero, so that each wait starts counting
\* from zero: the step that selects a wait state starts TIM15 at count zero.
C37_HoldTimerIffWait ==
  /\ htim15 = [on |-> FALSE, cnt |-> 0] /\ NextState \notin WaitStates
  /\ [][/\ htim15'.on <=> NextState' \in WaitStates
        /\ NextState' \notin WaitStates => htim15' = [on |-> FALSE, cnt |-> 0]
        /\ (NextState' \in WaitStates /\ NextState \notin WaitStates)
           => htim15' = [on |-> TRUE, cnt |-> 0]]_vars

\* Wait20s is about to expire: TIM15 has counted up to the threshold
C37_Witness ==
  /\ MainAt("w20_tim") /\ State = "Wait20s" /\ NextState = "Wait20s"
  /\ htim15 = [on |-> TRUE, cnt |-> red_delay_Max]

\* the Arbiter changes the controller's state or a sub-stage counter
ArbiterMoves == State' # State \/ NextState' # NextState \/ stage' # stage

\* C38: the static stage of go_intersection and of stop_intersection is 0
\* whenever the Arbiter changes the controller's state or a sub-stage, and a
\* sequence begun for one intersection is completed by calls for the same one:
\* a call made while the function's stage is 1 names the intersection whose
\* masks the function selected in stage 0.
C38_SequencerAtRest ==
  /\ [][ArbiterMoves => (go_static.stage = 0 /\ stop_static.stage = 0)]_vars
  /\ [][(Main_go_intersection /\ go_static.stage = 1)
        => Head(ops).k = go_static.sel]_vars
  /\ [][(Main_stop_intersection /\ stop_static.stage = 1)
        => Head(ops).k = stop_static.sel]_vars

\* go_intersection(1) is called in its stage 1, begun for intersection 1,
\* after the stop sequence of intersection 2 has run through its two stages
C38_Witness ==
  /\ MainOp("go_intersection") /\ Head(ops).k = 1
  /\ go_static = [stage |-> 1, sel |-> 1] /\ stop_static = [stage |-> 0, sel |-> 2]
  /\ State = "Intersection1" /\ stage[1] = 1 /\ Lamps(1) = AmberPair(1)

=============================================================================
